---- MODULE Spec2Model ----
(***************************************************************************)
(* Model of controllers/attester_controller.go: the reconciliation pass of *)
(* the Attester controller (AttesterReconciler.Reconcile), its helpers     *)
(* registerFinalizer and updateStatus, and the in-memory registry          *)
(* r.Attesters read through ListAttesters.                                 *)
(*                                                                         *)
(* One Attester identity (ReqKey) is modelled.  A pass is a sequence of    *)
(* steps, one per call the handler makes to a collaborator (resource       *)
(* store, secret store, registry), so that external edits and other        *)
(* passes can interleave between the calls.                                *)
(***************************************************************************)
EXTENDS Integers, Sequences, FiniteSets, TLC

\* ---------------------------------------------------------------- bounds
MaxFaults == 1
MaxEdits == 3
MaxPassCount == 3

\* -------------------------------------------------------------- constants
attesterFinalizerName == "attester.finalizers.rode.liatr.io"
OtherFinalizer == "other.finalizer"

ReqName == "a"
ReqNamespace == "ns"
ReqKey == "ns/a"

ConditionCompiled == "Compiled"
ConditionSecret == "Secret"
ConditionStatusTrue == "True"
ConditionStatusFalse == "False"

Passes == {1, 2}
SeqPasses == {1}

PolicySources == {"good", "bad"}
SecretNames == {ReqName, "custom"}
NoSecret == "absent"
GeneratedKeys == "generated"
MalformedKeys == "malformed"

NoPolicy == [name |-> "", source |-> ""]
NoSigner == [keys |-> ""]

\* ------------------------------------------------------------------ state
VARIABLES
    res,        \* the Attester object held by the resource store
    secrets,    \* the secret store: secret name -> key material or NoSecret
    Attesters,  \* r.Attesters, the registry map
    pc,         \* position of each pass inside Reconcile ("idle": not running,
                \* "done": returned, result not yet taken by the dispatcher)
    att,        \* each pass's in-memory copy of the Attester (att)
    local,      \* each pass's locals policy, signer, signerSecret
    stale,      \* whether the copy's resourceVersion is behind the store's
    ret,        \* what the pass returned: "none", "ok" (nil) or "err"
    ev,         \* what the pass has done so far (set of event tags)
    faults,     \* injected collaborator failures so far
    edits,      \* external edits so far
    passes,     \* passes completed since creation, counted while `clean`
    clean,      \* created as in Scenario A (valid policy, no secret reference,
                \* no secret, no entry, no pass running) and undisturbed since
    calm,       \* passes completed since the last fault or external edit
    torn,       \* deletion branch of this incarnation: "no", "unguarded" (the
                \* finalizer removal was persisted), "secretDeleted"
                \* (DeleteSecret was called) or "done" (the branch returned)
    lateCreate, \* a pass that loaded the Attester before it was marked for
                \* deletion created a secret after DeleteSecret was called
    reader      \* a caller of ListAttesters: whether it still holds the map
                \* it was given, and what the map held when it got it

vars == <<res, secrets, Attesters, pc, att, local, stale, ret, ev,
          faults, edits, passes, clean, calm, torn, lateCreate, reader>>

\* An Attester object: ObjectMeta.DeletionTimestamp, ObjectMeta.Finalizers,
\* Spec.Policy, Spec.PgpSecret, Status.Conditions.
Absent ==
    [present |-> FALSE, deletionTimestamp |-> FALSE, finalizers |-> {},
     policy |-> "", pgpSecret |-> "", conditions |-> <<>>]

NoLocal ==
    [policy |-> NoPolicy, signer |-> NoSigner, signerSecret |-> NoSecret,
     err |-> "nil"]

Min(a, b) == IF a < b THEN a ELSE b

\* ------------------------------------------------------ finalizer helpers
containsFinalizer(finalizers, name) == name \in finalizers

removeFinalizer(finalizers, name) == finalizers \ {name}

\* -------------------------------------------------------- pkg/attester
\* attester.NewPolicy(name, source, trace): compiles, or fails on bad source.
PolicyCompiles(source) == source \in {"good", "better"}

NewPolicy(name, source) == [name |-> name, source |-> source]

\* attester.ReadSigner(buf): parses stored key material, or fails.
SignerParses(keys) == keys \notin {MalformedKeys, NoSecret, ""}

ReadSigner(keys) == [keys |-> keys]

\* attester.NewAttester(name, policy, signer)
NewAttester(name, policy, signer) ==
    [name |-> name, policy |-> policy, signer |-> signer]

\* ------------------------------------------------------------ conditions
\* Mutant of InitialConditions: the two conditions are appended in the
\* other order.
InitialConditionsSwapped(conditions) ==
    Append(Append(conditions,
                  [type |-> ConditionSecret, status |-> ConditionStatusFalse]),
           [type |-> ConditionCompiled, status |-> ConditionStatusFalse])

\* Mutant of InitialConditions: only the Compiled condition is appended.
InitialConditionsCompiledOnly(conditions) ==
    Append(conditions,
           [type |-> ConditionCompiled, status |-> ConditionStatusFalse])

\* lines 107-119: the two conditions appended when none exist
InitialConditions(conditions) ==
    Append(Append(conditions,
                  [type |-> ConditionCompiled, status |-> ConditionStatusFalse]),
           [type |-> ConditionSecret, status |-> ConditionStatusFalse])

\* updateStatus, lines 241-247: the slot written for a condition type
ConditionSlot(conditionType) ==
    IF conditionType = ConditionCompiled THEN 1 ELSE 2

SetConditionStatus(conditions, conditionType, status) ==
    [conditions EXCEPT ![ConditionSlot(conditionType)].status = status]

\* ------------------------------------------------------- resource store
\* r.Update: writes metadata and spec of the copy, keeps the stored status.
\* The store drops an object marked for deletion once it has no finalizers.
StoreUpdate(stored, copy) ==
    [stored EXCEPT !.finalizers = copy.finalizers,
                   !.policy = copy.policy,
                   !.pgpSecret = copy.pgpSecret]

\* r.Status().Update: writes the status of the copy only.
StoreStatusUpdate(stored, copy) ==
    [stored EXCEPT !.conditions = copy.conditions]

Finalize(stored) ==
    IF stored.deletionTimestamp /\ stored.finalizers = {} THEN Absent ELSE stored

\* A persist call succeeds iff the store answers (ok), the object exists and
\* the copy carries the current resourceVersion.
CanWrite(p, ok) == ok /\ res.present /\ ~stale[p]

\* ------------------------------------------------------------- registry
\* line 221: r.Attesters[key] = attester
RegistryPut(registry, key, value) ==
    [k \in (DOMAIN registry) \cup {key} |->
        IF k = key THEN value ELSE registry[k]]

\* Mutant of RegistryDelete: the entry is left in the map.
RegistryDeleteNothing(registry, key) == registry

\* line 100: delete(r.Attesters, key)
RegistryDelete(registry, key) ==
    [k \in (DOMAIN registry) \ {key} |-> registry[k]]

\* ListAttesters, lines 44-46: returns the map itself
ListAttesters == Attesters

\* ---------------------------------------------------------------- Init
EmptyRegistry == [k \in {} |-> NoLocal]

\* No caller holds a map returned by ListAttesters.
NoReader == [held |-> FALSE, seen |-> EmptyRegistry]

\* No pass is running and nothing has happened yet.
InitControl(budgetUsed) ==
    /\ pc = [p \in Passes |-> "idle"]
    /\ att = [p \in Passes |-> Absent]
    /\ local = [p \in Passes |-> NoLocal]
    /\ stale = [p \in Passes |-> FALSE]
    /\ ret = [p \in Passes |-> "none"]
    /\ ev = [p \in Passes |-> {}]
    /\ faults = budgetUsed
    /\ edits = 0
    /\ passes = 0
    /\ clean = FALSE
    /\ calm = 0
    /\ torn = "no"
    /\ lateCreate = FALSE
    /\ reader = NoReader

InitWith(budgetUsed) ==
    /\ res = Absent
    /\ secrets = [s \in SecretNames |-> NoSecret]
    /\ Attesters = EmptyRegistry
    /\ InitControl(budgetUsed)

\* Collaborators may fail up to MaxFaults times.
Init == InitWith(0)

\* Collaborators answer every call: the only failures are the ones that
\* overlapping passes cause each other (conflicts, secrets that exist).
InitOverlap == InitWith(MaxFaults)

\* ------------------------------------------------------- step bookkeeping
FailureTags ==
    {"loadFail", "persistFail", "secretGetFail", "newSecretFail",
     "deleteSecretFail"}

WriteTags == {"update", "status", "secretCreate", "secretDelete"}

\* Which copies fall behind when the stored object becomes `stored`.
InFlight(q) == pc[q] \notin {"idle", "done"}

StaleAfter(p, stored) ==
    [q \in Passes |->
        IF stored = res THEN stale[q]
        ELSE IF q = p THEN ~stored.present
        ELSE InFlight(q)]

History(p, returning, faulted, tags) ==
    /\ faults' = IF faulted THEN faults + 1 ELSE faults
    /\ edits' = edits
    /\ clean' = (clean /\ ~faulted)
    /\ passes' = IF faulted \/ ~clean THEN 0
                 ELSE IF returning THEN Min(passes + 1, MaxPassCount)
                 ELSE passes
    /\ calm' = IF ~returning THEN calm
               ELSE IF tags \cap FailureTags # {} THEN 0
               ELSE Min(calm + 1, 2)

\* Pass p moves on to `label` with in-memory copy `copy` and locals `loc`.
Goto(p, label, copy, loc, stored, tags, faulted) ==
    /\ pc' = [pc EXCEPT ![p] = label]
    /\ att' = [att EXCEPT ![p] = copy]
    /\ local' = [local EXCEPT ![p] = loc]
    /\ res' = stored
    /\ stale' = StaleAfter(p, stored)
    /\ ev' = [ev EXCEPT ![p] = tags]
    /\ ret' = ret
    /\ History(p, FALSE, faulted, tags)

\* Pass p returns e ("ok" for a nil error, "err" otherwise) to the dispatcher.
Return(p, e, stored, tags, faulted) ==
    /\ pc' = [pc EXCEPT ![p] = "done"]
    /\ att' = [att EXCEPT ![p] = Absent]
    /\ local' = [local EXCEPT ![p] = NoLocal]
    /\ res' = stored
    /\ stale' = [StaleAfter(p, stored) EXCEPT ![p] = FALSE]
    /\ ev' = [ev EXCEPT ![p] = tags]
    /\ ret' = [ret EXCEPT ![p] = e]
    /\ History(p, TRUE, faulted, tags)

\* The resource is fully reconciled: nothing is left for a pass to change.
Converged ==
    /\ res.present
    /\ ~res.deletionTimestamp
    /\ containsFinalizer(res.finalizers, attesterFinalizerName)
    /\ PolicyCompiles(res.policy)
    /\ res.conditions =
         <<[type |-> ConditionCompiled, status |-> ConditionStatusTrue],
           [type |-> ConditionSecret, status |-> ConditionStatusTrue]>>
    /\ res.pgpSecret \in SecretNames
    /\ SignerParses(secrets[res.pgpSecret])
    /\ ReqKey \in DOMAIN Attesters
    /\ Attesters[ReqKey] =
         NewAttester(ReqKey, NewPolicy(ReqName, res.policy),
                     ReadSigner(secrets[res.pgpSecret]))

\* ------------------------------------------------------------- Reconcile
\* Mutant of IgnoreNotFound: a missing Attester is reported as an error.
ReportNotFound(e) == "err"

\* line 68: client.IgnoreNotFound(err), nil for a not-found error
IgnoreNotFound(e) == IF e = "notFound" THEN "ok" ELSE "err"

\* lines 57-69: load the Attester; a missing one is not an error
Load(p) ==
    /\ pc[p] = "idle"
    /\ \E ok \in BOOLEAN :
        /\ ok \/ faults < MaxFaults
        /\ LET tags == IF Converged THEN {"converged"} ELSE {} IN
           IF ~ok
           THEN Return(p, IgnoreNotFound("unavailable"), res,
                       tags \cup {"loadFail"}, TRUE)
           ELSE IF ~res.present
           THEN Return(p, IgnoreNotFound("notFound"), res,
                       tags \cup {"notFound"}, FALSE)
           ELSE /\ pc' = [pc EXCEPT ![p] = "regfin"]
                /\ att' = [att EXCEPT ![p] = res]
                /\ local' = [local EXCEPT ![p] = NoLocal]
                /\ stale' = [stale EXCEPT ![p] = FALSE]
                /\ ev' = [ev EXCEPT ![p] = tags]
                /\ ret' = [ret EXCEPT ![p] = "none"]
                /\ res' = res
                /\ History(p, FALSE, FALSE, tags)
    /\ UNCHANGED <<secrets, Attesters, torn, lateCreate, reader>>

\* Mutant of NeedsFinalizer: the deletion timestamp is not looked at.
NeedsFinalizerEvenDeleting(copy) ==
    ~containsFinalizer(copy.finalizers, attesterFinalizerName)

\* line 228: the Attester isn't being deleted and has no finalizer of ours
NeedsFinalizer(copy) ==
    /\ ~copy.deletionTimestamp
    /\ ~containsFinalizer(copy.finalizers, attesterFinalizerName)

\* lines 71-75 and 226-238: add the finalizer; a failed update is only logged
registerFinalizer(p) ==
    /\ pc[p] = "regfin"
    /\ IF NeedsFinalizer(att[p])
       THEN \E ok \in BOOLEAN :
              /\ ok \/ faults < MaxFaults
              /\ LET copy == [att[p] EXCEPT
                                !.finalizers = @ \cup {attesterFinalizerName}]
                     stored == StoreUpdate(res, copy)
                 IN IF CanWrite(p, ok)
                    THEN Goto(p, "delbranch", stored, local[p], Finalize(stored),
                              ev[p] \cup {"update"}, FALSE)
                    ELSE Goto(p, "delbranch", copy, local[p], res,
                              ev[p] \cup {"update", "persistFail"}, ~ok)
       ELSE Goto(p, "delbranch", att[p], local[p], res, ev[p], FALSE)
    /\ UNCHANGED <<secrets, Attesters, torn, lateCreate, reader>>

\* Mutant of AfterRemoveUpdate: the failed update does not stop the branch.
AfterRemoveUpdateIgnoringError(written) == "delsecret"

\* lines 84-88: the branch goes on only when the update succeeded
AfterRemoveUpdate(written) == IF written THEN "delsecret" ELSE "return"

\* lines 77-88: deletion branch, removing the finalizer
removeFinalizerStep(p) ==
    /\ pc[p] = "delbranch"
    /\ IF /\ att[p].deletionTimestamp
          /\ containsFinalizer(att[p].finalizers, attesterFinalizerName)
       THEN \E ok \in BOOLEAN :
              /\ ok \/ faults < MaxFaults
              /\ LET copy == [att[p] EXCEPT
                                !.finalizers =
                                    removeFinalizer(@, attesterFinalizerName)]
                     stored == StoreUpdate(res, copy)
                     failed == ev[p] \cup
                               {"update", "persistFail", "delBranchFail"}
                 IN IF CanWrite(p, ok)
                    THEN /\ Goto(p, AfterRemoveUpdate(TRUE), stored, local[p],
                                 Finalize(stored),
                                 ev[p] \cup {"update", "delBranch"}, FALSE)
                         /\ torn' = "unguarded"
                    ELSE /\ IF AfterRemoveUpdate(FALSE) = "return"
                            THEN Return(p, "err", res, failed, ~ok)
                            ELSE Goto(p, AfterRemoveUpdate(FALSE), copy,
                                      local[p], res, failed, ~ok)
                         /\ torn' = torn
       ELSE /\ Goto(p, "initcond", att[p], local[p], res, ev[p], FALSE)
            /\ torn' = torn
    /\ UNCHANGED <<secrets, Attesters, lateCreate, reader>>

\* How far the deletion branch of the current incarnation has come: a pass
\* still tearing down an Attester that was re-created meanwhile (torn is "no"
\* again) does not count for the new one.
TornAfter(stage) == IF torn = "no" THEN "no" ELSE stage

\* attester.DeleteSecret: removes the secret; a missing secret is no error
DeleteSecret(store, name) ==
    IF name \in DOMAIN store THEN [store EXCEPT ![name] = NoSecret] ELSE store

\* lines 90-97: delete the secret named by Spec.PgpSecret; failure is logged
deleteSecretStep(p) ==
    /\ pc[p] = "delsecret"
    /\ \E ok \in BOOLEAN :
        /\ ok \/ faults < MaxFaults
        /\ IF ok
           THEN /\ secrets' = DeleteSecret(secrets, att[p].pgpSecret)
                /\ Goto(p, "delreg", att[p], [local[p] EXCEPT !.err = "nil"],
                        res, ev[p] \cup {"secretDelete"}, FALSE)
           ELSE /\ secrets' = secrets
                /\ Goto(p, "delreg", att[p], [local[p] EXCEPT !.err = "err"],
                        res, ev[p] \cup {"secretDelete", "deleteSecretFail"},
                        TRUE)
    /\ torn' = TornAfter("secretDeleted")
    /\ UNCHANGED <<Attesters, lateCreate, reader>>

\* lines 99-102: drop the registry entry and return err of DeleteSecret
deleteAttester(p) ==
    /\ pc[p] = "delreg"
    /\ Attesters' = RegistryDelete(Attesters, ReqKey)
    /\ Return(p, IF local[p].err = "nil" THEN "ok" ELSE "err", res,
              ev[p] \cup {"regDelete"}, FALSE)
    /\ torn' = TornAfter("done")
    /\ UNCHANGED <<secrets, lateCreate, reader>>

\* lines 105-125: create the two conditions when there are none
initConditions(p) ==
    /\ pc[p] = "initcond"
    /\ IF Len(att[p].conditions) = 0
       THEN \E ok \in BOOLEAN :
              /\ ok \/ faults < MaxFaults
              /\ LET copy == [att[p] EXCEPT
                                !.conditions = InitialConditions(@)]
                     stored == StoreStatusUpdate(res, copy)
                 IN IF CanWrite(p, ok)
                    THEN Goto(p, "compile", stored, local[p], stored,
                              ev[p] \cup {"status", "initConditions"}, FALSE)
                    ELSE Return(p, "err", res,
                                ev[p] \cup {"status", "persistFail"}, ~ok)
       ELSE Goto(p, "compile", att[p], local[p], res, ev[p], FALSE)
    /\ UNCHANGED <<secrets, Attesters, torn, lateCreate, reader>>

\* Mutant of WithStatus: the condition is appended, not written to its slot.
WithStatusAppended(copy, conditionType, status) ==
    [copy EXCEPT !.conditions =
        Append(@, [type |-> conditionType, status |-> status])]

\* updateStatus, lines 240-247: the in-memory copy after the slot write
WithStatus(copy, conditionType, status) ==
    [copy EXCEPT !.conditions = SetConditionStatus(@, conditionType, status)]

\* An indexed access to Status.Conditions aborts the process when out of range.
InRange(conditions, conditionType) ==
    ConditionSlot(conditionType) <= Len(conditions)

\* Mutant of AfterCompile: the compile error does not stop the pass.
AfterCompileIgnoringError(compiles, compiledStatus) ==
    IF compiledStatus # ConditionStatusTrue THEN "first" ELSE "continue"

\* Mutant of AfterCompile: the first successful compilation is not recorded
\* and does not end the pass.
AfterCompileNoStop(compiles, compiledStatus) ==
    IF ~compiles THEN "failed" ELSE "continue"

\* lines 128-149: what the pass does once NewPolicy has answered
AfterCompile(compiles, compiledStatus) ==
    IF ~compiles THEN "failed"
    ELSE IF compiledStatus # ConditionStatusTrue THEN "first"
    ELSE "continue"

\* lines 127-149: always recompile; record the outcome in Conditions[0]
compilePolicy(p) ==
    /\ pc[p] = "compile"
    /\ IF ~InRange(att[p].conditions, ConditionCompiled)
       THEN Goto(p, "panic", att[p], local[p], res, ev[p] \cup {"panic"}, FALSE)
       ELSE LET outcome ==
                    AfterCompile(PolicyCompiles(att[p].policy),
                                 att[p].conditions[1].status)
            IN
            CASE outcome = "failed" ->
                   \* lines 129-138: the error returned is updateStatus's own
                   \E ok \in BOOLEAN :
                     /\ ok \/ faults < MaxFaults
                     /\ LET copy == WithStatus(att[p], ConditionCompiled,
                                               ConditionStatusFalse)
                            tags == ev[p] \cup
                                    {"compileFail", "status", "setCompiledFalse"}
                        IN IF CanWrite(p, ok)
                           THEN Return(p, "ok", StoreStatusUpdate(res, copy),
                                       tags, FALSE)
                           ELSE Return(p, "err", res,
                                       tags \cup {"persistFail"}, ~ok)
              [] outcome = "first" ->
                   \* lines 140-149: a failed status write is only logged
                   \E ok \in BOOLEAN :
                     /\ ok \/ faults < MaxFaults
                     /\ LET copy == WithStatus(att[p], ConditionCompiled,
                                               ConditionStatusTrue)
                            tags == ev[p] \cup {"status", "setCompiledTrue"}
                        IN IF CanWrite(p, ok)
                           THEN Return(p, "ok", StoreStatusUpdate(res, copy),
                                       tags, FALSE)
                           ELSE Return(p, "ok", res,
                                       tags \cup {"persistFail"}, ~ok)
              [] OTHER ->
                   Goto(p, "pgp", att[p],
                        [local[p] EXCEPT
                            !.policy = NewPolicy(ReqName, att[p].policy)],
                        res, ev[p], FALSE)
    /\ UNCHANGED <<secrets, Attesters, torn, lateCreate, reader>>

\* Mutant of DefaultSecretName: defaults to a fixed name, not req.Name.
DefaultSecretNameFixed(name) == "custom"

\* line 156: the secret name used when none is specified
DefaultSecretName(name) == name

\* lines 154-166: default Spec.PgpSecret to req.Name, persist and return
defaultPgpSecret(p) ==
    /\ pc[p] = "pgp"
    /\ IF att[p].pgpSecret = ""
       THEN \E ok \in BOOLEAN :
              /\ ok \/ faults < MaxFaults
              /\ LET copy == [att[p] EXCEPT
                                !.pgpSecret = DefaultSecretName(ReqName)]
                     tags == ev[p] \cup {"update", "setPgpSecret"}
                 IN IF CanWrite(p, ok)
                    THEN Return(p, "ok", Finalize(StoreUpdate(res, copy)),
                                tags, FALSE)
                    ELSE Return(p, "err", res, tags \cup {"persistFail"}, ~ok)
       ELSE Goto(p, "getsecret", att[p], local[p], res, ev[p], FALSE)
    /\ UNCHANGED <<secrets, Attesters, torn, lateCreate, reader>>

\* lines 168-178: fetch the secret named by Spec.PgpSecret
getSecret(p) ==
    /\ pc[p] = "getsecret"
    /\ \E ok \in BOOLEAN :
        /\ ok \/ faults < MaxFaults
        /\ LET name == att[p].pgpSecret
               tags == ev[p] \cup {"secretGet"}
           IN IF ~ok
              THEN Return(p, "err", res, tags \cup {"secretGetFail"}, TRUE)
              ELSE IF name \in SecretNames /\ secrets[name] # NoSecret
              THEN Goto(p, "readsigner", att[p],
                        [local[p] EXCEPT !.signerSecret = secrets[name]],
                        res, tags, FALSE)
              ELSE Goto(p, "newsecret", att[p], local[p], res, tags, FALSE)
    /\ UNCHANGED <<secrets, Attesters, torn, lateCreate, reader>>

\* attester.NewSecret: generates key material and stores it under `name`;
\* fails when the store refuses or the secret already exists.
CanCreateSecret(store, name, ok) ==
    ok /\ name \in DOMAIN store /\ store[name] = NoSecret

NewSecret(store, name) == [store EXCEPT ![name] = GeneratedKeys]

\* lines 180-187: the secret was not found, create one
newSecret(p) ==
    /\ pc[p] = "newsecret"
    /\ \E ok \in BOOLEAN :
        /\ ok \/ faults < MaxFaults
        /\ LET name == att[p].pgpSecret
               tags == ev[p] \cup {"secretCreate"}
           IN IF CanCreateSecret(secrets, name, ok)
              THEN /\ secrets' = NewSecret(secrets, name)
                   /\ lateCreate' = (lateCreate \/
                                    (torn \in {"secretDeleted", "done"} /\
                                     ~att[p].deletionTimestamp))
                   /\ Goto(p, "secretcreated", att[p],
                           [local[p] EXCEPT !.signer = ReadSigner(GeneratedKeys)],
                           res, tags \cup {"secretCreated"}, FALSE)
              ELSE /\ secrets' = secrets
                   /\ lateCreate' = lateCreate
                   /\ Goto(p, "secretfailed", att[p], local[p], res,
                           tags \cup {"newSecretFail"}, ~ok)
    /\ UNCHANGED <<Attesters, torn, reader>>

\* lines 186-194: NewSecret failed; the error returned is updateStatus's own
secretFailed(p) ==
    /\ pc[p] = "secretfailed"
    /\ IF ~InRange(att[p].conditions, ConditionSecret)
       THEN Goto(p, "panic", att[p], local[p], res, ev[p] \cup {"panic"}, FALSE)
       ELSE \E ok \in BOOLEAN :
              /\ ok \/ faults < MaxFaults
              /\ LET copy == WithStatus(att[p], ConditionSecret,
                                        ConditionStatusFalse)
                     tags == ev[p] \cup {"status", "setSecretFalse"}
                 IN IF CanWrite(p, ok)
                    THEN Return(p, "ok", StoreStatusUpdate(res, copy), tags,
                                FALSE)
                    ELSE Return(p, "err", res, tags \cup {"persistFail"}, ~ok)
    /\ UNCHANGED <<secrets, Attesters, torn, lateCreate, reader>>

\* lines 196-202: NewSecret succeeded; a failed status write is only logged
secretCreated(p) ==
    /\ pc[p] = "secretcreated"
    /\ IF ~InRange(att[p].conditions, ConditionSecret)
       THEN Goto(p, "panic", att[p], local[p], res, ev[p] \cup {"panic"}, FALSE)
       ELSE \E ok \in BOOLEAN :
              /\ ok \/ faults < MaxFaults
              /\ LET copy == WithStatus(att[p], ConditionSecret,
                                        ConditionStatusTrue)
                     stored == StoreStatusUpdate(res, copy)
                     tags == ev[p] \cup {"status", "setSecretTrue"}
                 IN IF CanWrite(p, ok)
                    THEN Goto(p, "publish", stored, local[p], stored, tags,
                              FALSE)
                    ELSE Goto(p, "publish", copy, local[p], res,
                              tags \cup {"persistFail"}, ~ok)
    /\ UNCHANGED <<secrets, Attesters, torn, lateCreate, reader>>

\* lines 203-218: the secret exists; rebuild the signer from its key material
readSigner(p) ==
    /\ pc[p] = "readsigner"
    /\ IF ~InRange(att[p].conditions, ConditionSecret)
       THEN Goto(p, "panic", att[p], local[p], res, ev[p] \cup {"panic"}, FALSE)
       ELSE \E ok \in BOOLEAN :
              /\ ok \/ faults < MaxFaults
              /\ IF ~SignerParses(local[p].signerSecret)
                 THEN LET copy == WithStatus(att[p], ConditionSecret,
                                             ConditionStatusFalse)
                          tags == ev[p] \cup
                                  {"readSignerFail", "status", "setSecretFalse"}
                      IN IF CanWrite(p, ok)
                         THEN Return(p, "ok", StoreStatusUpdate(res, copy),
                                     tags, FALSE)
                         ELSE Return(p, "err", res, tags \cup {"persistFail"},
                                     ~ok)
                 ELSE LET copy == WithStatus(att[p], ConditionSecret,
                                             ConditionStatusTrue)
                          stored == StoreStatusUpdate(res, copy)
                          loc == [local[p] EXCEPT
                                    !.signer = ReadSigner(local[p].signerSecret)]
                          tags == ev[p] \cup {"status", "setSecretTrue"}
                      IN IF CanWrite(p, ok)
                         THEN Goto(p, "publish", stored, loc, stored, tags,
                                   FALSE)
                         ELSE Goto(p, "publish", copy, loc, res,
                                   tags \cup {"persistFail"}, ~ok)
    /\ UNCHANGED <<secrets, Attesters, torn, lateCreate, reader>>

\* lines 220-223: publish the attester in the registry and return nil
publish(p) ==
    /\ pc[p] = "publish"
    /\ Attesters' = RegistryPut(Attesters, ReqKey,
                                NewAttester(ReqKey, local[p].policy,
                                            local[p].signer))
    /\ Return(p, "ok", res, ev[p] \cup {"regPublish"}, FALSE)
    /\ UNCHANGED <<secrets, torn, lateCreate, reader>>

\* The dispatcher takes the result of a returned pass (ctrl.Result, error).
Done(p) ==
    /\ pc[p] = "done"
    /\ pc' = [pc EXCEPT ![p] = "idle"]
    /\ ret' = [ret EXCEPT ![p] = "none"]
    /\ ev' = [ev EXCEPT ![p] = {}]
    /\ UNCHANGED <<res, secrets, Attesters, att, local, stale, faults, edits,
                   passes, clean, calm, torn, lateCreate, reader>>

\* ------------------------------------------------------ external edits
\* Every external edit of the Attester bumps its resourceVersion.
External(stored) ==
    /\ edits < MaxEdits
    /\ edits' = edits + 1
    /\ res' = stored
    /\ stale' = [q \in Passes |-> InFlight(q)]
    /\ calm' = 0
    /\ UNCHANGED <<Attesters, pc, att, local, ret, ev, faults, reader>>

\* A user creates the Attester (no finalizer of ours, no conditions).
CreateAttester ==
    /\ ~res.present
    /\ \E source \in PolicySources, secretRef \in {""} \cup SecretNames,
          guarded \in BOOLEAN :
        /\ External([present |-> TRUE, deletionTimestamp |-> FALSE,
                     finalizers |-> IF guarded THEN {OtherFinalizer} ELSE {},
                     policy |-> source, pgpSecret |-> secretRef,
                     conditions |-> <<>>])
        /\ clean' = (/\ \A p \in Passes : pc[p] = "idle"
                     /\ PolicyCompiles(source)
                     /\ secretRef = ""
                     /\ secrets[ReqName] = NoSecret
                     /\ ReqKey \notin DOMAIN Attesters)
    /\ passes' = 0
    /\ torn' = "no"
    /\ lateCreate' = FALSE
    /\ UNCHANGED <<secrets, reader>>

\* A user changes Spec.Policy.
EditPolicy ==
    /\ res.present
    /\ \E source \in PolicySources \ {res.policy} :
        External([res EXCEPT !.policy = source])
    /\ clean' = FALSE
    /\ passes' = 0
    /\ UNCHANGED <<secrets, torn, lateCreate, reader>>

\* A user deletes the Attester: it stays, marked, while finalizers remain.
DeleteAttester ==
    /\ res.present
    /\ ~res.deletionTimestamp
    /\ External(Finalize([res EXCEPT !.deletionTimestamp = TRUE]))
    /\ clean' = FALSE
    /\ passes' = 0
    /\ UNCHANGED <<secrets, torn, lateCreate, reader>>

\* Another controller removes its own finalizer.
RemoveOtherFinalizer ==
    /\ res.present
    /\ OtherFinalizer \in res.finalizers
    /\ External(Finalize([res EXCEPT
                            !.finalizers = @ \ {OtherFinalizer}]))
    /\ clean' = FALSE
    /\ passes' = 0
    /\ UNCHANGED <<secrets, torn, lateCreate, reader>>

\* The key material of an existing secret is overwritten with garbage.
CorruptSecret ==
    /\ edits < MaxEdits
    /\ \E name \in SecretNames :
        /\ secrets[name] \notin {NoSecret, MalformedKeys}
        /\ secrets' = [secrets EXCEPT ![name] = MalformedKeys]
    /\ edits' = edits + 1
    /\ calm' = 0
    /\ clean' = FALSE
    /\ passes' = 0
    /\ UNCHANGED <<res, Attesters, pc, att, local, stale, ret, ev, faults,
                   torn, lateCreate, reader>>

Environment ==
    \/ CreateAttester
    \/ EditPolicy
    \/ DeleteAttester
    \/ RemoveOtherFinalizer
    \/ CorruptSecret

Reconcile(p) ==
    \/ Load(p)
    \/ registerFinalizer(p)
    \/ removeFinalizerStep(p)
    \/ deleteSecretStep(p)
    \/ deleteAttester(p)
    \/ initConditions(p)
    \/ compilePolicy(p)
    \/ defaultPgpSecret(p)
    \/ getSecret(p)
    \/ newSecret(p)
    \/ secretFailed(p)
    \/ secretCreated(p)
    \/ readSigner(p)
    \/ publish(p)
    \/ Done(p)

\* The dispatcher runs one pass at a time for the identity.
Next == Environment \/ \E p \in SeqPasses : Reconcile(p)

Spec == Init /\ [][Next]_vars

\* The process dies in the middle of a pass and is started again: every pass
\* is abandoned where it was, and the registry, which lives in memory only,
\* starts empty.  The stores keep what was persisted.
Crash ==
    /\ \E p \in Passes : InFlight(p)
    /\ pc' = [p \in Passes |-> "idle"]
    /\ att' = [p \in Passes |-> Absent]
    /\ local' = [p \in Passes |-> NoLocal]
    /\ stale' = [p \in Passes |-> FALSE]
    /\ ret' = [p \in Passes |-> "none"]
    /\ ev' = [p \in Passes |-> {}]
    /\ Attesters' = EmptyRegistry
    /\ clean' = FALSE
    /\ passes' = 0
    /\ calm' = 0
    /\ UNCHANGED <<res, secrets, faults, edits, torn, lateCreate, reader>>

NextCrash == Next \/ Crash

SpecCrash == Init /\ [][NextCrash]_vars

\* The state three undisturbed passes leave for an Attester created with a
\* valid policy and no secret reference.
InitConverged ==
    /\ res = [present |-> TRUE, deletionTimestamp |-> FALSE,
              finalizers |-> {attesterFinalizerName},
              policy |-> "good", pgpSecret |-> DefaultSecretName(ReqName),
              conditions |->
                <<[type |-> ConditionCompiled, status |-> ConditionStatusTrue],
                  [type |-> ConditionSecret, status |-> ConditionStatusTrue]>>]
    /\ secrets = NewSecret([s \in SecretNames |-> NoSecret],
                           DefaultSecretName(ReqName))
    /\ Attesters = RegistryPut(EmptyRegistry, ReqKey,
                               NewAttester(ReqKey, NewPolicy(ReqName, "good"),
                                           ReadSigner(GeneratedKeys)))
    /\ InitControl(0)

\* A user replaces a valid Spec.Policy by another valid one.
RevisePolicy ==
    /\ res.present
    /\ PolicyCompiles(res.policy)
    /\ External([res EXCEPT
                    !.policy = IF @ = "good" THEN "better" ELSE "good"])
    /\ clean' = FALSE
    /\ passes' = 0
    /\ UNCHANGED <<secrets, torn, lateCreate>>

NextRevise == Next \/ RevisePolicy

SpecConverged == InitConverged /\ [][NextRevise]_vars

\* A caller obtains the registry through ListAttesters and keeps what it was
\* given: the map of the reconciler itself, not a copy.
ReaderList ==
    /\ ~reader.held
    /\ reader' = [held |-> TRUE, seen |-> ListAttesters]
    /\ UNCHANGED <<res, secrets, Attesters, pc, att, local, stale, ret, ev,
                   faults, edits, passes, clean, calm, torn, lateCreate>>

\* The caller is done with the map.
ReaderRelease ==
    /\ reader.held
    /\ reader' = NoReader
    /\ UNCHANGED <<res, secrets, Attesters, pc, att, local, stale, ret, ev,
                   faults, edits, passes, clean, calm, torn, lateCreate>>

\* What the caller finds in the map it holds: the map is shared with the
\* passes, so it is whatever r.Attesters holds now.
ReaderView == ListAttesters

NextReader == Next \/ ReaderList \/ ReaderRelease

SpecReader == Init /\ [][NextReader]_vars

\* The dispatcher lets passes for the identity overlap.
NextOverlap == Environment \/ \E p \in Passes : Reconcile(p)

SpecOverlap == InitOverlap /\ [][NextOverlap]_vars

\* ------------------------------------------------------------ properties
Quiescent == \A p \in Passes : ~InFlight(p)

Returned(p) == pc[p] = "done"

StoredCondition(conditionType) ==
    IF res.present /\ InRange(res.conditions, conditionType)
    THEN res.conditions[ConditionSlot(conditionType)].status
    ELSE "none"

Published == ReqKey \in DOMAIN ListAttesters

HasMarker(stored) ==
    containsFinalizer(stored.finalizers, attesterFinalizerName)

SecretAndRegistryTags ==
    {"secretGet", "secretCreate", "secretDelete", "setSecretTrue",
     "setSecretFalse", "regPublish", "regDelete"}

\* C1: whenever no pass is running, ListAttesters holds no entry for an
\* identity whose stored Compiled condition is False.
C1_NoEntryWhileCompiledFalse ==
    (Quiescent /\ StoredCondition(ConditionCompiled) = ConditionStatusFalse)
        => ~Published

\* C2 (for a converged resource): the second of two passes in succession,
\* with no fault and no external edit since the first began, issues no
\* persisted write: no update, status update, secret create or delete.
C2_SecondPassWritesNothing ==
    \A p \in Passes :
        (Returned(p) /\ calm >= 2 /\ "converged" \in ev[p])
            => ev[p] \cap WriteTags = {}

\* C3: a resource created with a valid policy, no secret reference, no
\* secret and no registry entry, reconciled without faults or edits, is
\* after three passes (and from then on) guarded, [Compiled=True,
\* SecretReady=True], refers to the secret named after it, which exists,
\* and is published in the registry.
C3_ConvergedAfterThreePasses ==
    (clean /\ passes >= 3 /\ Quiescent) =>
        /\ res.present
        /\ HasMarker(res)
        /\ res.conditions =
             <<[type |-> ConditionCompiled, status |-> ConditionStatusTrue],
               [type |-> ConditionSecret, status |-> ConditionStatusTrue]>>
        /\ res.pgpSecret = ReqName
        /\ secrets[ReqName] # NoSecret
        /\ Published

C3_Witness ==
    /\ clean /\ passes = 3 /\ Quiescent
    /\ \E p \in Passes : Returned(p) /\ "regPublish" \in ev[p]

\* C4: a pass that took the deletion branch and whose finalizer-removing
\* update succeeded returns with the marker absent from the stored
\* resource, DeleteSecret attempted and no registry entry, whether
\* DeleteSecret succeeded or failed.
C4_DeletionBranchTearsDown ==
    \A p \in Passes :
        (Returned(p) /\ "delBranch" \in ev[p]) =>
            /\ ~HasMarker(res)
            /\ "secretDelete" \in ev[p]
            /\ "regDelete" \in ev[p]
            /\ ~Published

C4_Witness ==
    \E p \in Passes :
        /\ Returned(p)
        /\ "delBranch" \in ev[p]
        /\ "deleteSecretFail" \in ev[p]
        /\ res.present

\* C5: a pass whose DeleteSecret failed in the deletion branch returns
\* success (a nil error) to the dispatcher.
C5_DeleteFailureSwallowed ==
    \A p \in Passes :
        (Returned(p) /\ "deleteSecretFail" \in ev[p]) => ret[p] = "ok"

\* C6: a pass in which policy compilation or secret creation failed returns
\* a non-nil error, whatever the status write recording it did.
C6_FailureReturnsError ==
    \A p \in Passes :
        (Returned(p) /\ ev[p] \cap {"compileFail", "newSecretFail"} # {})
            => ret[p] = "err"

\* C7: a pass in which a persist call against the resource store failed
\* returns a non-nil error and publishes no registry entry.
C7_PersistFailureReturnsError ==
    \A p \in Passes :
        (Returned(p) /\ "persistFail" \in ev[p])
            => (ret[p] = "err" /\ "regPublish" \notin ev[p])

\* C8: after a pass that found malformed key material in the secret (with
\* Compiled True and every store call succeeding), SecretReady is stored
\* False, Compiled is stored True and the registry has no entry.
C8_MalformedKeysUnpublished ==
    \A p \in Passes :
        (/\ Returned(p)
         /\ "readSignerFail" \in ev[p]
         /\ ev[p] \cap FailureTags = {}
         /\ res.present)
            => /\ StoredCondition(ConditionSecret) = ConditionStatusFalse
               /\ StoredCondition(ConditionCompiled) = ConditionStatusTrue
               /\ ~Published

\* C9: the step of a pass in which policy compilation fails writes
\* Compiled=False to the status (stored when the write succeeds) and ends
\* the pass: no secret get, create or delete, no SecretReady write, no
\* registry write, in that step or earlier in the pass.
C9_CompileFailureStopsPass ==
    [][\A p \in Passes :
          (/\ pc[p] = "compile"
           /\ InRange(att[p].conditions, ConditionCompiled)
           /\ ~PolicyCompiles(att[p].policy)
           /\ pc'[p] # pc[p])
              => /\ pc'[p] = "done"
                 /\ "setCompiledFalse" \in ev'[p]
                 /\ ("persistFail" \notin ev'[p] =>
                        StoredCondition(ConditionCompiled)' =
                            ConditionStatusFalse)
                 /\ StoredCondition(ConditionSecret)' =
                        StoredCondition(ConditionSecret)
                 /\ ev'[p] \cap SecretAndRegistryTags = {}
                 /\ secrets' = secrets
                 /\ Attesters' = Attesters]_vars

C9_Witness ==
    \E p \in Passes :
        /\ Returned(p)
        /\ "compileFail" \in ev[p]
        /\ "persistFail" \notin ev[p]
        /\ StoredCondition(ConditionCompiled) = ConditionStatusFalse
        /\ StoredCondition(ConditionSecret) = ConditionStatusTrue

\* C10: once a pass has completed the deletion branch and no pass is in
\* flight, the registry holds no entry and no pass that loaded the resource
\* before its deletion has created a secret after the branch deleted it.
C10_NothingAfterTeardown ==
    (torn = "done" /\ Quiescent) => (~Published /\ ~lateCreate)

\* C11: a map obtained from ListAttesters is a snapshot: as long as the
\* caller holds it, it holds what the registry held when it was obtained,
\* whatever passes publish or remove in the meantime.
C11_ListedMapIsSnapshot ==
    reader.held => ReaderView = reader.seen

\* C12: once the deletion branch has persisted the removal of the finalizer,
\* the resource is gone from the store, or stays only because a finalizer of
\* another party remains, marked for deletion and without our finalizer:
\* also when the process dies or DeleteSecret fails before the branch ends.
\* No later pass puts the finalizer back, and no later step is needed.
C12_UnguardedStaysUnblocked ==
    torn # "no" =>
        \/ ~res.present
        \/ /\ res.deletionTimestamp
           /\ ~HasMarker(res)
           /\ OtherFinalizer \in res.finalizers

C12_Witness ==
    /\ torn = "unguarded"
    /\ \A p \in Passes : pc[p] = "idle"
    /\ ~res.present
    /\ \E name \in SecretNames : secrets[name] # NoSecret

\* Status.Conditions as lines 105-119 and updateStatus leave it.
ConditionsWellFormed(conditions) ==
    \/ conditions = <<>>
    \/ /\ Len(conditions) = 2
       /\ conditions[1].type = ConditionCompiled
       /\ conditions[2].type = ConditionSecret

\* C13: the stored condition list, and every pass's in-memory copy of it, is
\* either empty or has exactly two entries, Compiled first and SecretReady
\* second: no pass appends a third entry, duplicates a type or reorders.
C13_ConditionsEmptyOrTwo ==
    /\ ConditionsWellFormed(res.conditions)
    /\ \A p \in Passes : ConditionsWellFormed(att[p].conditions)

C13_Witness ==
    /\ \E p \in Passes : Returned(p) /\ "setSecretFalse" \in ev[p]
    /\ StoredCondition(ConditionCompiled) = ConditionStatusTrue
    /\ StoredCondition(ConditionSecret) = ConditionStatusFalse
    /\ Len(res.conditions) = 2

\* C14: the step of a pass that creates a secret, for a resource the pass
\* loaded unmarked for deletion and that is in the store, finds the finalizer
\* on the stored resource.
C14_SecretCreatedOnlyWhenGuarded ==
    [][\A p \in Passes :
          (/\ pc[p] = "newsecret"
           /\ ~att[p].deletionTimestamp
           /\ res.present
           /\ secrets' # secrets)
              => HasMarker(res)]_vars

\* C15: in the deletion branch, a pass whose finalizer-removing update fails
\* returns an error at once, leaving secrets and registry as they are; and
\* the steps that delete the secret and remove the registry entry are taken
\* only by a pass whose removal was persisted, with the finalizer gone from
\* the stored resource.
C15_TeardownOnlyAfterRemovalPersisted ==
    [][\A p \in Passes :
          /\ (/\ pc[p] = "delbranch"
              /\ att[p].deletionTimestamp
              /\ HasMarker(att[p])
              /\ pc'[p] # pc[p]
              /\ "persistFail" \in ev'[p])
                 => /\ pc'[p] = "done"
                    /\ ret'[p] = "err"
                    /\ res' = res
                    /\ secrets' = secrets
                    /\ Attesters' = Attesters
          /\ (pc[p] \in {"delsecret", "delreg"} /\ pc'[p] # pc[p])
                 => /\ "delBranch" \in ev[p]
                    /\ "persistFail" \notin ev[p]
                    /\ ~HasMarker(res)]_vars

C15_Witness ==
    \E p \in Passes :
        /\ Returned(p)
        /\ "delBranchFail" \in ev[p]
        /\ ret[p] = "err"
        /\ res.deletionTimestamp
        /\ HasMarker(res)
        /\ Published
        /\ secrets[res.pgpSecret] # NoSecret

\* C16: the step of a pass that records the first successful compilation
\* (Compiled not yet True) or that defaults an empty secret reference ends
\* the pass: the pass has not touched and does not touch the secret store,
\* the SecretReady condition or the registry.
C16_RecordingStepEndsPass ==
    [][\A p \in Passes :
          (/\ \/ /\ pc[p] = "compile"
                 /\ InRange(att[p].conditions, ConditionCompiled)
                 /\ PolicyCompiles(att[p].policy)
                 /\ att[p].conditions[1].status # ConditionStatusTrue
              \/ /\ pc[p] = "pgp"
                 /\ att[p].pgpSecret = ""
           /\ pc'[p] # pc[p])
              => /\ pc'[p] = "done"
                 /\ ev'[p] \cap {"setCompiledTrue", "setPgpSecret"} # {}
                 /\ ev'[p] \cap SecretAndRegistryTags = {}
                 /\ StoredCondition(ConditionSecret)' =
                        StoredCondition(ConditionSecret)
                 /\ secrets' = secrets
                 /\ Attesters' = Attesters]_vars

C16_Witness ==
    \E p \in Passes :
        /\ Returned(p)
        /\ "setCompiledTrue" \in ev[p]
        /\ "initConditions" \in ev[p]
        /\ "persistFail" \notin ev[p]
        /\ StoredCondition(ConditionCompiled) = ConditionStatusTrue
        /\ StoredCondition(ConditionSecret) = ConditionStatusFalse
        /\ res.pgpSecret = ""

\* C17: a pass for an identity that is absent from the store, whose load is
\* answered, returns success in its first step and changes neither the
\* store, nor the secrets, nor the registry.
C17_AbsentIdentityIsNoOp ==
    [][\A p \in Passes :
          (/\ pc[p] = "idle"
           /\ ~res.present
           /\ pc'[p] # pc[p]
           /\ "loadFail" \notin ev'[p])
              => /\ pc'[p] = "done"
                 /\ ret'[p] = "ok"
                 /\ ev'[p] \cap (WriteTags \cup SecretAndRegistryTags) = {}
                 /\ res' = res
                 /\ secrets' = secrets
                 /\ Attesters' = Attesters]_vars

C17_Witness ==
    \E p \in Passes :
        /\ Returned(p)
        /\ "notFound" \in ev[p]
        /\ ret[p] = "ok"
        /\ ~res.present
        /\ Published

\* C18: a pass whose copy of the resource is marked for deletion and has no
\* finalizer of ours, and that did not itself run the deletion branch, takes
\* no step that creates a secret and no step that publishes a registry entry.
C18_UnguardedDeletingPassIsInert ==
    [][\A p \in Passes :
          (/\ InFlight(p)
           /\ att[p].deletionTimestamp
           /\ ~HasMarker(att[p])
           /\ "delBranch" \notin ev[p])
              => /\ (pc[p] = "newsecret" => secrets' = secrets)
                 /\ (pc[p] = "publish" => "regPublish" \notin ev'[p])]_vars

\* The state the claim lists: not marked for deletion, finalizer present,
\* [Compiled=True, SecretReady=True], a secret reference, an existing
\* parseable secret and a registry entry.
ListedConverged ==
    /\ res.present
    /\ ~res.deletionTimestamp
    /\ HasMarker(res)
    /\ StoredCondition(ConditionCompiled) = ConditionStatusTrue
    /\ StoredCondition(ConditionSecret) = ConditionStatusTrue
    /\ res.pgpSecret \in SecretNames
    /\ SignerParses(secrets[res.pgpSecret])
    /\ Published

\* C19 as stated: in the listed state, every step of a pass that holds the
\* current version of the resource (or is about to load it) leaves stored
\* resource, secrets and registry equal.
C19_ListedStateIsFixpoint ==
    [][\A p \in Passes :
          (/\ ListedConverged
           /\ pc[p] = "idle" \/ (InFlight(p) /\ ~stale[p])
           /\ pc'[p] # pc[p])
              => /\ res' = res
                 /\ secrets' = secrets
                 /\ Attesters' = Attesters]_vars

\* C19 amended: when moreover the registry entry is the one built from the
\* stored policy and the secret's key material, every step of a pass that
\* loaded the resource in that state leaves stored resource, secrets and
\* registry equal.
C19_ConvergedIsFixpoint ==
    [][\A p \in Passes :
          (/\ Converged
           /\ pc[p] = "idle" \/ (InFlight(p) /\ "converged" \in ev[p])
           /\ pc'[p] # pc[p])
              => /\ res' = res
                 /\ secrets' = secrets
                 /\ Attesters' = Attesters]_vars

C19_Witness ==
    \E p \in Passes :
        /\ Returned(p)
        /\ {"converged", "setSecretTrue", "regPublish"} \subseteq ev[p]
        /\ ev[p] \cap FailureTags = {}
        /\ Converged

\* C20: no pass reaches an out-of-range access to the condition list: from
\* the compile step on, where slot 0 is read and updateStatus writes slot 0
\* or slot 1, the in-memory list of the pass has exactly two entries.
C20_IndexedAccessInRange ==
    \A p \in Passes :
        /\ pc[p] # "panic"
        /\ "panic" \notin ev[p]
        /\ pc[p] \in {"compile", "pgp", "getsecret", "newsecret",
                      "secretfailed", "secretcreated", "readsigner",
                      "publish"}
              => Len(att[p].conditions) = 2

C20_Witness ==
    \E p \in Passes :
        /\ pc[p] = "secretfailed"
        /\ "newSecretFail" \in ev[p]
        /\ Len(att[p].conditions) = 2

====
